---- MODULE Spec2Model ----
(***************************************************************************)
(* Model of the quiz-solving agent: the LangGraph control loop of          *)
(* src/agent.py (agent_node, route, handle_malformed_node, ToolNode), the  *)
(* submission and fetch tools of src/tools/send_request.py, and the        *)
(* tabular pipeline of src/tools/interpret_instruction.py and              *)
(* src/tools/process_csv.py.                                               *)
(*                                                                         *)
(* Time is the wall clock in seconds.  A message of the conversation is a  *)
(* record holding what the code reads of it: its type, its content (as a   *)
(* kind, with the file named by a download marker), the tool that produced *)
(* it, the tool calls it requests and its finish_reason.                   *)
(***************************************************************************)
EXTENDS Integers, Sequences, FiniteSets, TLC

VARIABLES
    pc,           \* node of the graph about to run: agent, tools, handle_malformed, end, crashed
    messages,     \* AgentState["messages"]
    tool_calls,   \* calls of the last assistant turn still to be executed by the ToolNode
    now,          \* time.time()
    url,          \* os.environ["url"], the current task-identifier
    offset,       \* os.environ["offset"], the retry offset
    url_time,     \* shared_store.url_time: dict url -> first-seen time
    cache,        \* send_request.cache: defaultdict(int) url -> attempts
    BASE64_STORE, \* shared_store.BASE64_STORE: the keys it holds
    path,         \* the branch the last agent_node run took
    last,         \* what the last executed tool call did
    steps,        \* nodes of the graph run so far (what recursion_limit counts)
    signalled,    \* some POST response so far carried no follow-up url
    threads,      \* the calls of a turn running side by side: stage, url read, result
    csv           \* state of the tabular pipeline

vars == <<pc, messages, tool_calls, now, url, offset, url_time, cache,
          BASE64_STORE, path, last, steps, signalled, threads, csv>>

loopVars == <<pc, messages, tool_calls, now, url, offset, url_time, cache,
              BASE64_STORE, path, last, steps, signalled, threads>>

(***************************************************************************)
(* Bounds of the model.                                                    *)
(***************************************************************************)
MaxSteps == 8            \* nodes run per session (Spec), in place of RECURSION_LIMIT
MaxRetrySteps == 10     \* nodes run per session (SpecRetry)
MaxGateSteps == 7        \* nodes run per session (SpecGate)
Prefill == 12            \* plain assistant turns already in the history (SpecGate)
MaxTime == 180           \* seconds of wall clock explored
BigTokens == 25000       \* tokens of a fetched page or response body
SmallTokens == 100       \* tokens of any other turn

Steps == {45}            \* seconds the clock advances between two observations

(***************************************************************************)
(* Program constants.                                                      *)
(***************************************************************************)
retry_limit == 4
MAX_TOKENS == 60000
WindowSize == 15
TaskLimit == 180
RetryLimitSecs == 90
OffsetUnset == -1        \* the sentinel "0" of os.getenv("offset", "0")

URLs == {"u1", "u2", "u3"}
InitialURL == "u1"

AudioExt == {"opus", "mp3", "wav", "ogg"}
ImageExt == {"png", "jpg", "jpeg", "bmp"}
Ext == [f \in {"a.opus", "b.opus", "p.png"} |->
          IF f = "p.png" THEN "png" ELSE "opus"]
Files == DOMAIN Ext

(***************************************************************************)
(* Messages.                                                               *)
(***************************************************************************)
Msg(type, text, name, file, calls, fin) ==
    [type |-> type, text |-> text, name |-> name, file |-> file,
     calls |-> calls, fin |-> fin]

SystemMsg == Msg("system", "SYSTEM_PROMPT", "", "", <<>>, "")
HumanMsg(text) == Msg("human", text, "", "", <<>>, "")
AIMsg(text, calls, fin) == Msg("ai", text, "", "", calls, fin)
ToolMsg(name, text, file) == Msg("tool", text, name, file, <<>>, "")

\* what a message keeps of a requested call: the tool, the file it names, its id
CallView(c) == [name |-> c.name, file |-> c.file, id |-> c.id]
CallViews(cs) == [i \in 1..Len(cs) |-> CallView(cs[i])]

Call(name, file, id, target, answer) ==
    [name |-> name, file |-> file, id |-> id, target |-> target, answer |-> answer]

Last(s) == s[Len(s)]

(***************************************************************************)
(* trim_messages(strategy="last", include_system=True, start_on="human"):  *)
(* the system turn is kept, then the longest suffix of the other turns     *)
(* that fits the remaining budget, cut at its front to start on a human    *)
(* turn.                                                                   *)
(***************************************************************************)
Tokens(m) == IF m.type = "tool" /\ m.text = "body" THEN BigTokens ELSE SmallTokens

RECURSIVE SumTokens(_, _)
SumTokens(s, k) == IF k > Len(s) THEN 0 ELSE Tokens(s[k]) + SumTokens(s, k + 1)

Min(S) == CHOOSE x \in S : \A y \in S : x <= y

TrimMessages(msgs) ==
    LET sys    == Head(msgs)
        rest   == Tail(msgs)
        n      == Len(rest)
        budget == MAX_TOKENS - Tokens(sys)
        fit    == Min({k \in 1..(n + 1) : SumTokens(rest, k) <= budget})
        start  == Min({k \in fit..(n + 1) : k = n + 1 \/ rest[k].type = "human"})
    IN  <<sys>> \o SubSeq(rest, start, n)

\* mutant: no grounding turn
Ungrounded(trimmed) == trimmed

\* agent.py 142-144: a grounding turn when trimming left no human turn
Grounded(trimmed) ==
    IF \E i \in 1..Len(trimmed) : trimmed[i].type = "human"
    THEN trimmed
    ELSE Append(trimmed, HumanMsg("Context cleared"))

\* agent.py 147: trimmed_messages[-15:]
RecentMessages(trimmed) ==
    IF Len(trimmed) <= WindowSize THEN trimmed
    ELSE SubSeq(trimmed, Len(trimmed) - WindowSize + 1, Len(trimmed))

(***************************************************************************)
(* The forced-tool logic of agent_node.  `t in str(recent_messages)` is    *)
(* true of a window holding the name t anywhere in the repr of a message:  *)
(* in the system prompt (which names both tools), in a tool call of an     *)
(* assistant turn, or as the name of a tool-result turn.                   *)
(***************************************************************************)
\* mutant: only the system prompt is searched for the name
MentionsInPrompt(m, t) == m.type = "system"

Mentions(m, t) ==
    \/ m.type = "system"
    \/ \E i \in 1..Len(m.calls) : m.calls[i].name = t
    \/ m.type = "tool" /\ m.name = t

InStr(window, t) == \E i \in 1..Len(window) : Mentions(window[i], t)

\* re.search(r'Downloaded file to:.*?([\w-]+\.(opus|mp3|wav|ogg))', content)
audio_match(m) == m.text = "Downloaded file to:" /\ Ext[m.file] \in AudioExt
\* re.search(r'Downloaded file to:.*?([\w-]+\.(png|jpg|jpeg|bmp))', content)
img_match(m) == m.text = "Downloaded file to:" /\ Ext[m.file] \in ImageExt

None == "None"

\* the loop of agent.py 158-168: each match overwrites the previous one
RECURSIVE LastMatch(_, _, _)
LastMatch(window, i, audio) ==
    IF i = 0 THEN None
    ELSE IF (IF audio THEN audio_match(window[i]) ELSE img_match(window[i]))
         THEN window[i].file
         ELSE LastMatch(window, i - 1, audio)

downloaded_audio(window) == LastMatch(window, Len(window), TRUE)
downloaded_image(window) == LastMatch(window, Len(window), FALSE)
transcribed_audio(window) == InStr(window, "transcribe_audio")
ocr_run(window) == InStr(window, "ocr_image_tool")

ForceAudio(window) == downloaded_audio(window) # None /\ ~transcribed_audio(window)
ForceImage(window) == downloaded_image(window) # None /\ ~ocr_run(window)

NoCall == Call("", "", "", [scheme |-> "", netloc |-> "", rest |-> ""], "")

\* the forced call agent_node returns for a window: a call, or NoCall
ForcedCall(window) ==
    IF ForceAudio(window)
    THEN Call("transcribe_audio", downloaded_audio(window), "force_audio",
              NoCall.target, "")
    ELSE IF ForceImage(window)
    THEN Call("ocr_image_tool", downloaded_image(window), "force_ocr",
              NoCall.target, "")
    ELSE NoCall

\* the window agent_node inspects for a history
Window(msgs) == RecentMessages(Grounded(TrimMessages(msgs)))

(***************************************************************************)
(* SessionTimer: the timeout test of agent.py 120-126.                     *)
(***************************************************************************)
TaskExpired(diff) == diff >= TaskLimit
RetryExpired(t, off) == off # OffsetUnset /\ t - off > RetryLimitSecs

TimedOut(u) ==
    /\ u \in DOMAIN url_time
    /\ \/ TaskExpired(now - url_time[u])
       \/ RetryExpired(now, offset)

(***************************************************************************)
(* route (agent.py 197-213).                                               *)
(***************************************************************************)
\* content.strip() on the contents in use
PaddedEnd == " END\n"
strip(text) == IF text = PaddedEnd THEN "END" ELSE text

\* mutant: tool calls are looked at before the malformed flag
routeToolsFirst(m) ==
    IF Len(m.calls) > 0 THEN "tools"
    ELSE IF m.fin = "MALFORMED_FUNCTION_CALL" THEN "handle_malformed"
    ELSE IF strip(m.text) = "END" THEN "end"
    ELSE "agent"

route(m) ==
    IF m.fin = "MALFORMED_FUNCTION_CALL" THEN "handle_malformed"
    ELSE IF Len(m.calls) > 0 THEN "tools"
    ELSE IF strip(m.text) = "END" THEN "end"
    ELSE "agent"

(***************************************************************************)
(* agent_node (agent.py 116-194) followed by the conditional edge.  R is   *)
(* the set of turns the model may answer with.                             *)
(***************************************************************************)
Emit(m, calls, p) ==
    /\ messages' = Append(messages, m)
    /\ path' = p
    /\ pc' = route(m)
    /\ tool_calls' = IF route(m) = "tools" THEN calls ELSE <<>>

Invoke(R, p) ==
    \E r \in R : Emit(AIMsg(r.text, CallViews(r.calls), r.fin), r.calls, p)

agent_node(R, cap) ==
    /\ pc = "agent"
    /\ steps < cap
    /\ steps' = steps + 1
    /\ IF TimedOut(url)
       THEN Invoke(R, "timeout")
       ELSE LET forced == ForcedCall(Window(messages))
            IN  IF forced # NoCall
                THEN Emit(AIMsg("", <<CallView(forced)>>, ""), <<forced>>,
                          IF forced.name = "transcribe_audio" THEN "forced_audio"
                          ELSE "forced_image")
                ELSE Invoke(R, "llm")
    /\ UNCHANGED <<now, url, offset, url_time, cache, BASE64_STORE, last,
                   signalled, threads, csv>>

\* handle_malformed_node (agent.py 102-113), then the edge to agent
handle_malformed_node ==
    /\ pc = "handle_malformed"
    /\ messages' = Append(messages, HumanMsg("SYSTEM ERROR"))
    /\ pc' = "agent"
    /\ steps' = steps + 1
    /\ UNCHANGED <<tool_calls, now, url, offset, url_time, cache, BASE64_STORE,
                   path, last, signalled, threads, csv>>


(***************************************************************************)
(* Inputs of the tools.  A target URL is what urlparse makes of it; the    *)
(* table Contains gives, for each part, the blocklist entries that occur   *)
(* in it as substrings.                                                    *)
(***************************************************************************)
Target(scheme, netloc, rest) == [scheme |-> scheme, netloc |-> netloc, rest |-> rest]

GoodTarget == Target("https", "quiz.test", "/submit")
NoSchemeTarget == Target("", "", "quiz.test/submit")
PlaceholderTarget == Target("https", "example.com", "/x")
TemplateTarget == Target("https", "quiz.test", "/YOUR_ENDPOINT")
NoTarget == Target("", "", "")
Targets == {GoodTarget, NoSchemeTarget, PlaceholderTarget}

blocked_domains == {"example.com", "YOUR_", "quiz.example.com", "api.example.com"}
Contains(part) ==
    IF part = "example.com" THEN {"example.com"}
    ELSE IF part = "/YOUR_ENDPOINT" THEN {"YOUR_"}
    ELSE {}

InvalidURL(t) == t.scheme = "" \/ t.netloc = ""
Blocked(t) ==
    \E b \in blocked_domains :
        b \in Contains(t.scheme) \cup Contains(t.netloc) \cup Contains(t.rest)

\* answers of a payload; KeyOf is ans.split(":", 1)[1] for the answers that
\* start with "BASE64_KEY:"
Answers == {"42", "BASE64_KEY:k1"}
KeyOf == [a \in {"BASE64_KEY:k1"} |-> "k1"]
IsKeyRef(ans) == ans \in DOMAIN KeyOf

\* what the network and the server may do with a request
Reply(kind, next, correct) == [kind |-> kind, url |-> next, correct |-> correct]
NoReply == Reply("none", None, FALSE)
Replies ==
    {Reply(k, None, FALSE) : k \in {"exception", "http_error", "non_json"}}
    \cup {Reply("json", n, c) : n \in URLs \cup {None}, c \in BOOLEAN}

\* a fetch reads no field of the body it gets
GetReplies == {r \in Replies : r.kind = "json" => (r.url = None /\ ~r.correct)}

\* what a tool call did: its outcome, whether a request went out, the
\* follow-up url and the verdict of the response, and the task it ran for
Did(tool, outcome, sent, reply, cur) ==
    [tool |-> tool, outcome |-> outcome, sent |-> sent, next |-> reply.url,
     correct |-> reply.correct, cur |-> cur]

(***************************************************************************)
(* post_request (send_request.py 84-214).  The action leaves the result    *)
(* in last; a KeyError of line 112 leaves outcome "raised".                *)
(***************************************************************************)
\* mutant: the ceiling test as an equality
ShouldAdvanceAtCeilingOnly(attempts, delay, age) ==
    attempts = retry_limit \/ delay >= TaskLimit \/ age > RetryLimitSecs

\* mutant: the age of the follow-up is not looked at
ShouldAdvanceIgnoringAge(attempts, delay, age) ==
    attempts >= retry_limit \/ delay >= TaskLimit

\* send_request.py 183: give up retrying
ShouldAdvance(attempts, delay, age) ==
    attempts >= retry_limit \/ delay >= TaskLimit \/ age > RetryLimitSecs

\* mutant: the start time is recorded at every announcement
TouchAlways(ut, u, t) ==
    [x \in DOMAIN ut \cup {u} |-> IF x = u THEN t ELSE ut[x]]

\* mutant: recording a start time forgets the other entries
TouchForgetting(ut, u, t) ==
    [x \in {u} |-> IF u \in DOMAIN ut THEN ut[u] ELSE t]

\* send_request.py 175-176: record the start time of an unseen follow-up
Touch(ut, u, t) ==
    IF u \in DOMAIN ut THEN ut
    ELSE [x \in DOMAIN ut \cup {u} |-> IF x = u THEN t ELSE ut[x]]

\* mutant: the attempt is not counted
NotCounted(c, u) == c

\* send_request.py 136: cache[cur_url] += 1
Attempted(c, u) == [c EXCEPT ![u] = c[u] + 1]

\* mutant: a missing start time is read as time 0
delaySinceZero(cur_url) ==
    IF cur_url \in DOMAIN url_time THEN now - url_time[cur_url] ELSE now

\* send_request.py 161: time.time() - url_time.get(cur_url, time.time())
delay(cur_url) ==
    IF cur_url \in DOMAIN url_time THEN now - url_time[cur_url] ELSE 0

\* send_request.py 147-214: what post_request does with the outcome of
\* requests.post, for the url it read on line 135 and the value of
\* cache[cur_url] it reads on line 183
Respond(cur_url, attempts, reply) ==
    LET next_url == reply.url
        touched  == Touch(url_time, next_url, now)
    IN
    IF reply.kind # "json"
    THEN /\ last' = Did("post_request", reply.kind, TRUE, reply, cur_url)
         /\ UNCHANGED <<url, offset, url_time>>
    ELSE IF next_url = None
    THEN /\ last' = Did("post_request", "agent_signal_END", TRUE, reply, cur_url)
         /\ UNCHANGED <<url, offset, url_time>>
    ELSE
      /\ url_time' = touched
      /\ IF ~reply.correct /\ ~ShouldAdvance(attempts, delay(cur_url), now - touched[next_url])
         THEN \* retry: data["url"] = cur_url
              /\ url' = cur_url
              /\ offset' = IF cur_url = next_url THEN OffsetUnset
                           ELSE touched[next_url]
              /\ last' = Did("post_request", "retry", TRUE, reply, cur_url)
         ELSE /\ url' = next_url
              /\ offset' = OffsetUnset
              /\ last' = Did("post_request",
                             IF reply.correct THEN "correct" ELSE "advance",
                             TRUE, reply, cur_url)

post_request(c, reply) ==
    IF IsKeyRef(c.answer) /\ KeyOf[c.answer] \notin BASE64_STORE
    THEN /\ last' = Did("post_request", "raised", FALSE, NoReply, url)
         /\ UNCHANGED <<url, offset, url_time, cache>>
    ELSE IF InvalidURL(c.target)
    THEN /\ last' = Did("post_request", "invalid_url", FALSE, NoReply, url)
         /\ UNCHANGED <<url, offset, url_time, cache>>
    ELSE IF Blocked(c.target)
    THEN /\ last' = Did("post_request", "placeholder_url", FALSE, NoReply, url)
         /\ UNCHANGED <<url, offset, url_time, cache>>
    ELSE
      \* lines 135-136, then the request and its response
      /\ cache' = Attempted(cache, url)
      /\ Respond(url, cache'[url], reply)

\* get_request (send_request.py 17-81)
get_request(c, reply) ==
    /\ last' = IF InvalidURL(c.target)
               THEN Did("get_request", "invalid_url", FALSE, NoReply, url)
               ELSE IF Blocked(c.target)
               THEN Did("get_request", "placeholder_url", FALSE, NoReply, url)
               ELSE Did("get_request", reply.kind, TRUE, reply, url)
    /\ UNCHANGED <<url, offset, url_time, cache>>

\* the content of the tool-result turn for what a tool did
ResultText(d) ==
    IF d.tool = "download_file" THEN "Downloaded file to:"
    ELSE IF d.tool = "get_request" /\ d.outcome \in {"json", "non_json"} THEN "body"
    ELSE IF d.outcome = "raised" THEN "Error:"
    ELSE "result"

(***************************************************************************)
(* ToolNode (agent.py 218): runs the next requested call and appends its   *)
(* result; the edge leads back to agent once all calls have run.  A tool   *)
(* that raises either has the exception turned into an error turn by the   *)
(* node, or the exception leaves the graph.                                *)
(***************************************************************************)
\* encode_image_to_base64: keeps the encoding in the store under a key and
\* returns the key
encode_image_to_base64(c) ==
    /\ BASE64_STORE' = BASE64_STORE \cup {c.file}
    /\ last' = Did(c.name, "ok", FALSE, NoReply, url)
    /\ UNCHANGED <<url, offset, url_time, cache>>

RunTool(c, reply) ==
    IF c.name = "post_request" THEN
        post_request(c, reply) /\ UNCHANGED BASE64_STORE
    ELSE IF c.name = "get_request" THEN
        get_request(c, reply) /\ UNCHANGED BASE64_STORE
    ELSE IF c.name = "encode_image_to_base64" THEN
        encode_image_to_base64(c)
    ELSE
        /\ last' = Did(c.name, "ok", FALSE, NoReply, url)
        /\ UNCHANGED <<url, offset, url_time, cache, BASE64_STORE>>

NeedsReply(c) ==
    /\ c.name \in {"post_request", "get_request"}
    /\ ~InvalidURL(c.target) /\ ~Blocked(c.target)
    /\ ~(c.name = "post_request" /\ IsKeyRef(c.answer) /\ KeyOf[c.answer] \notin BASE64_STORE)

\* ToolNode runs the calls of one turn side by side (executor.map over a
\* thread pool).  Calls that touch no shared state give the same results in
\* any order and are run here one after the other; a turn of several
\* submissions is run by StartPost, FinishPost and JoinTools below.
ParallelBatch ==
    /\ Len(tool_calls) >= 2
    /\ \A i \in 1..Len(tool_calls) : tool_calls[i].name = "post_request"

ToolNode ==
    /\ pc = "tools"
    /\ tool_calls # <<>>
    /\ ~ParallelBatch
    /\ LET c == Head(tool_calls) IN
       /\ \E reply \in (IF ~NeedsReply(c) THEN {NoReply}
                        ELSE IF c.name = "get_request" THEN GetReplies
                        ELSE Replies) : RunTool(c, reply)
       /\ messages' = Append(messages, ToolMsg(c.name, ResultText(last'), c.file))
       /\ tool_calls' = Tail(tool_calls)
       /\ pc' = IF Tail(tool_calls) = <<>> THEN "agent" ELSE "tools"
    /\ steps' = steps + 1
    /\ signalled' = (signalled \/ (last'.tool = "post_request"
                                    /\ last'.outcome = "agent_signal_END"))
    /\ UNCHANGED <<now, path, threads, csv>>

\* the exception of a raising tool propagates out of app.invoke
ToolCrash ==
    /\ pc = "tools"
    /\ tool_calls # <<>>
    /\ LET c == Head(tool_calls) IN
       /\ c.name = "post_request"
       /\ IsKeyRef(c.answer) /\ KeyOf[c.answer] \notin BASE64_STORE
       /\ last' = Did("post_request", "raised", FALSE, NoReply, url)
    /\ pc' = "crashed"
    /\ UNCHANGED <<messages, tool_calls, now, url, offset, url_time, cache,
                   BASE64_STORE, path, steps, signalled, threads, csv>>

\* The wall clock advances while a call blocks: the model invocation of
\* agent_node (after its reading of the clock) and the request of a tool
\* (before post_request reads the clock).
Tick ==
    /\ pc = "tools" \/ (pc = "agent" /\ Last(messages).type = "ai")
    /\ \E d \in Steps : now + d <= MaxTime /\ now' = now + d
    /\ UNCHANGED <<pc, messages, tool_calls, url, offset, url_time, cache,
                   BASE64_STORE, path, last, steps, signalled, threads, csv>>

(***************************************************************************)
(* Several submissions requested in one turn.  Each runs in a thread of    *)
(* its own: it reads os.environ["url"] and increments cache[cur_url]       *)
(* (send_request.py 135-136), blocks in requests.post (line 147), and then *)
(* handles the response (lines 153-198) with the cur_url it read.  The     *)
(* node appends the results in the order of the calls once all threads     *)
(* are done.                                                               *)
(***************************************************************************)
Thread(stage, cur, did) == [stage |-> stage, cur |-> cur, did |-> did]
NoDid == Did("none", "none", FALSE, NoReply, None)
Th(i) == IF threads = <<>> THEN Thread("ready", None, NoDid) ELSE threads[i]
SetThread(i, t) == [j \in 1..Len(tool_calls) |-> IF j = i THEN t ELSE Th(j)]

StartPost ==
    /\ pc = "tools" /\ ParallelBatch
    /\ \E i \in 1..Len(tool_calls) :
          /\ Th(i).stage = "ready"
          /\ IF ~NeedsReply(tool_calls[i])
             THEN /\ post_request(tool_calls[i], NoReply)
                  /\ threads' = SetThread(i, Thread("done", url, last'))
             ELSE /\ cache' = Attempted(cache, url)
                  /\ threads' = SetThread(i, Thread("sent", url, NoDid))
                  /\ UNCHANGED <<url, offset, url_time, last>>
    /\ UNCHANGED <<pc, messages, tool_calls, now, BASE64_STORE, path, steps,
                   signalled, csv>>

FinishPost ==
    /\ pc = "tools" /\ ParallelBatch
    /\ \E i \in 1..Len(tool_calls) :
          /\ Th(i).stage = "sent"
          /\ \E reply \in Replies :
                /\ Respond(Th(i).cur, cache[Th(i).cur], reply)
                /\ threads' = SetThread(i, Thread("done", Th(i).cur, last'))
    /\ UNCHANGED <<pc, messages, tool_calls, now, cache, BASE64_STORE, path,
                   steps, signalled, csv>>

JoinTools ==
    /\ pc = "tools" /\ ParallelBatch
    /\ threads # <<>>
    /\ \A i \in 1..Len(threads) : threads[i].stage = "done"
    /\ messages' = messages \o
          [i \in 1..Len(threads) |->
              ToolMsg("post_request", ResultText(threads[i].did), "")]
    /\ tool_calls' = <<>>
    /\ threads' = <<>>
    /\ pc' = "agent"
    /\ steps' = steps + 1
    /\ signalled' = (signalled \/ \E i \in 1..Len(threads) :
                                      threads[i].did.outcome = "agent_signal_END")
    /\ UNCHANGED <<now, url, offset, url_time, cache, BASE64_STORE, path, last, csv>>

(***************************************************************************)
(* The turns the model may answer with.                                    *)
(***************************************************************************)
Resp(text, calls, fin) == [text |-> text, calls |-> calls, fin |-> fin]
One(name, file, target, answer) ==
    Resp("", <<Call(name, file, "call", target, answer)>>, "STOP")

\* a session that only submits: the model answers with a submission or ends
SubmitResponses ==
    {Resp("END", <<>>, "STOP")}
    \cup {One("post_request", "", t, a) : t \in Targets, a \in Answers}

\* a session that works on artifacts: text, downloads (one or two in a
\* turn), processing calls, a fetch, an encoding
GateResponses ==
    {Resp("END", <<>>, "STOP"), Resp("text", <<>>, "STOP"),
     Resp("", <<>>, "MALFORMED_FUNCTION_CALL")}
    \cup {One("download_file", f, NoTarget, "") : f \in Files}
    \cup {Resp("", <<Call("download_file", f, "call", NoTarget, ""),
                     Call("download_file", g, "call", NoTarget, "")>>, "STOP") :
            f \in {"a.opus", "b.opus"}, g \in {"p.png"}}
    \cup {One("transcribe_audio", f, NoTarget, "") : f \in {"a.opus", "b.opus"}}
    \cup {One("ocr_image_tool", "p.png", NoTarget, "")}
    \cup {One("get_request", "", t, "") : t \in {GoodTarget, TemplateTarget}}
    \cup {One("encode_image_to_base64", "k1", NoTarget, "")}

Filler(n) == [i \in 1..n |-> AIMsg("text", <<>>, "STOP")]

LoopInit(histories, timers) ==
    /\ pc = "agent"
    /\ messages \in histories
    /\ tool_calls = <<>>
    /\ now = 0
    /\ url = InitialURL
    /\ offset = OffsetUnset
    /\ url_time \in timers
    /\ cache = [u \in URLs |-> 0]
    /\ BASE64_STORE = {}
    /\ path = "start"
    /\ last = Did("none", "none", FALSE, NoReply, InitialURL)
    /\ steps = 0
    /\ signalled = FALSE
    /\ threads = <<>>

\* run_agent (agent.py 235-243): the system prompt and the task url.
\* run_agent records no start time for the first task (NoTimer); its caller
\* may have recorded one (Started).
NoTimer == [u \in {} |-> 0]
Started == [u \in {InitialURL} |-> 0]
Init ==
    /\ LoopInit({<<SystemMsg, HumanMsg("url")>>}, {NoTimer, Started})
    /\ csv = "idle"

Agent == agent_node(SubmitResponses, MaxSteps)

Next == Agent \/ ToolNode \/ ToolCrash \/ Tick

Spec == Init /\ [][Next]_vars

\* a session of well-formed submissions, explored deeper
RetryResponses ==
    {Resp("END", <<>>, "STOP"), One("post_request", "", GoodTarget, "42")}

RetryAgent == agent_node(RetryResponses, MaxRetrySteps)

NextRetry == RetryAgent \/ ToolNode \/ Tick

SpecRetry == Init /\ [][NextRetry]_vars

\* a session in which the model may request two submissions in one turn
MaxBatchSteps == 4       \* nodes run per session (SpecBatch)

BatchResponses ==
    RetryResponses
    \cup {Resp("", <<Call("post_request", "", "call", GoodTarget, "42"),
                     Call("post_request", "", "call", GoodTarget, "42")>>, "STOP")}

BatchAgent == agent_node(BatchResponses, MaxBatchSteps)

NextBatch == BatchAgent \/ ToolNode \/ StartPost \/ FinishPost \/ JoinTools

SpecBatch == Init /\ [][NextBatch]_vars

\* a session that exercises the edge selector: every combination of text,
\* tool calls and finish_reason
MaxRouteSteps == 5       \* nodes run per session (SpecRoute)

RouteResponses ==
    {Resp(t, cs, f) :
        t \in {"END", PaddedEnd, "text"},
        cs \in {<<>>, <<Call("download_file", "p.png", "call", NoTarget, "")>>},
        f \in {"STOP", "MALFORMED_FUNCTION_CALL"}}

RouteAgent == agent_node(RouteResponses, MaxRouteSteps)

NextRoute == RouteAgent \/ handle_malformed_node \/ ToolNode

SpecRoute == Init /\ [][NextRoute]_vars

\* artifact handling, from a fresh history or from one that already holds
\* Prefill plain assistant turns
InitGate ==
    /\ LoopInit({<<SystemMsg, HumanMsg("url")>>,
                 <<SystemMsg, HumanMsg("url")>> \o Filler(Prefill)},
                {NoTimer})
    /\ csv = "idle"

GateAgent == agent_node(GateResponses, MaxGateSteps)

NextGate == GateAgent \/ handle_malformed_node \/ ToolNode

SpecGate == InitGate /\ [][NextGate]_vars

(***************************************************************************)
(* Steps of the loop, as seen from the state before and after.             *)
(***************************************************************************)
\* agent_node ran (a DECIDE turn)
AgentStep == pc = "agent" /\ steps' = steps + 1
\* the ToolNode ran the next requested call, which returned or raised
ExecStep ==
    /\ pc = "tools" /\ tool_calls # <<>>
    /\ steps' = steps + 1 \/ pc' = "crashed"
\* a submission ran
PostStep == ExecStep /\ Head(tool_calls).name = "post_request"
\* the response to the submission just made marked the answer incorrect and
\* carried a follow-up identifier
IncorrectWithFollowUp(d) == d.sent /\ d.next # None /\ ~d.correct

(***************************************************************************)
(* C1.  On every DECIDE turn the loop takes the timeout-escape path        *)
(* exactly when isTimedOut(current task-identifier) holds: elapsed >= 180, *)
(* or the retry offset is set and now - offset > 90.                       *)
(***************************************************************************)
\* elapsed and isTimedOut as the specification defines them
elapsed(u) == now - url_time[u]
isTimedOut(u) ==
    \/ u \in DOMAIN url_time /\ elapsed(u) >= 180
    \/ offset # OffsetUnset /\ now - offset > 90

C1_EscapeIffTimedOut ==
    [][AgentStep => ((path' = "timeout") <=> isTimedOut(url))]_vars

(***************************************************************************)
(* C2.  Once SubmissionAttempt[id] has reached the retry ceiling, every    *)
(* later submission made while id is current that gets an incorrect-answer *)
(* response with a follow-up identifier advances: the current              *)
(* task-identifier becomes the follow-up, and the result is not a retry.   *)
(***************************************************************************)
C2_CeilingAdvances ==
    [][(PostStep /\ cache[url] >= retry_limit /\ IncorrectWithFollowUp(last'))
       => (last'.outcome = "advance" /\ url' = last'.next)]_vars

\* a submission for a task already at the ceiling advanced to another task
C2_Witness ==
    /\ last.tool = "post_request" /\ last.outcome = "advance"
    /\ cache[last.cur] > retry_limit
    /\ last.next # last.cur /\ url = last.next

(***************************************************************************)
(* C3.  A submit or fetch whose target URL lacks a scheme or host, or      *)
(* matches the placeholder blocklist, returns a structured error without   *)
(* a network call and leaves the attempt counter, the timer entries, the   *)
(* current task-identifier and the retry offset unchanged.                 *)
(***************************************************************************)
C3_BadTargetRefused ==
    [][(/\ ExecStep
        /\ Head(tool_calls).name \in {"post_request", "get_request"}
        /\ \/ InvalidURL(Head(tool_calls).target)
           \/ Blocked(Head(tool_calls).target))
       => /\ last'.outcome \in {"invalid_url", "placeholder_url"}
          /\ ~last'.sent
          /\ UNCHANGED <<cache, url_time, url, offset>>]_vars

(***************************************************************************)
(* C7.  If isTimedOut(current task-identifier) holds when a submission is  *)
(* made for it and the response marks the answer incorrect and carries a   *)
(* follow-up identifier, the outcome is advance, never retry.              *)
(***************************************************************************)
C7_TimedOutAdvances ==
    [][(PostStep /\ TimedOut(url) /\ IncorrectWithFollowUp(last'))
       => (last'.outcome = "advance" /\ url' = last'.next)]_vars

(***************************************************************************)
(* C8.  The session reaches TERMINATED only after some submission's POST   *)
(* response carried no follow-up url.                                      *)
(***************************************************************************)
C8_EndOnlyAfterSignal == pc = "end" => signalled

(***************************************************************************)
(* C9.  submit never raises across the tool boundary: for every payload,   *)
(* target and server behaviour it returns a value.                         *)
(***************************************************************************)
C9_SubmitReturns == last.tool = "post_request" => last.outcome # "raised"

(***************************************************************************)
(* Artifacts of a window, in the words of the specification: an artifact   *)
(* is pending when its download marker is in the window and no result of   *)
(* its processing tool for it is.                                          *)
(***************************************************************************)
AudioFiles == {f \in Files : Ext[f] \in AudioExt}
ImageFiles == {f \in Files : Ext[f] \in ImageExt}
ProcessingTool(f) == IF f \in AudioFiles THEN "transcribe_audio" ELSE "ocr_image_tool"

MarkerAt(w, i, f) == w[i].text = "Downloaded file to:" /\ w[i].file = f
ResultAt(w, i, f) ==
    w[i].type = "tool" /\ w[i].name = ProcessingTool(f) /\ w[i].file = f

Pending(w, f) ==
    /\ \E i \in 1..Len(w) : MarkerAt(w, i, f)
    /\ ~\E i \in 1..Len(w) : ResultAt(w, i, f)
\* a result for f follows a marker for f in the window
ProcessedLater(w, f) ==
    \E i, j \in 1..Len(w) : i < j /\ MarkerAt(w, i, f) /\ ResultAt(w, j, f)

PendingAudio(w) == {f \in AudioFiles : Pending(w, f)}
PendingImage(w) == {f \in ImageFiles : Pending(w, f)}

\* the forced call of the turn agent_node just emitted, or NoCall
Forced ==
    IF path \in {"forced_audio", "forced_image"}
    THEN Last(messages).calls[1]
    ELSE CallView(NoCall)

(***************************************************************************)
(* C4.  For any window that holds a download marker for an audio file and  *)
(* no transcription result mentioning it, the gate returns a forced        *)
(* transcription call for such a file; once a transcription result for a   *)
(* file appears later in the window, the gate forces no transcription of   *)
(* that file.                                                              *)
(***************************************************************************)
C4_PendingAudioForced ==
    [][AgentStep =>
         LET w == Window(messages) IN
         /\ PendingAudio(w) # {} =>
              (Forced'.name = "transcribe_audio" /\ Forced'.file \in PendingAudio(w))
         /\ \A f \in AudioFiles :
              ProcessedLater(w, f) /\ f \notin PendingAudio(w) =>
                ~(Forced'.name = "transcribe_audio" /\ Forced'.file = f)]_vars

(***************************************************************************)
(* C5.  After a download result for an audio or image file is appended,    *)
(* the model is not invoked again before a transcribe (audio) or           *)
(* analyze-image (image) call for that artifact has been emitted.          *)
(***************************************************************************)
\* a downloaded artifact for which no processing call was emitted since
Outstanding(msgs) ==
    \E i \in 1..Len(msgs) : \E f \in Files :
        /\ MarkerAt(msgs, i, f)
        /\ ~\E j \in (i + 1)..Len(msgs) : \E k \in 1..Len(msgs[j].calls) :
              msgs[j].calls[k].name = ProcessingTool(f) /\ msgs[j].calls[k].file = f

C5_ProcessedBeforeModel ==
    [][(AgentStep /\ Outstanding(messages)) => path' \notin {"llm", "timeout"}]_vars

(***************************************************************************)
(* C6.  Whenever both an unprocessed audio download marker and an          *)
(* unprocessed image download marker are in the window, the forced call    *)
(* issued is for the audio artifact, never for the image.                  *)
(***************************************************************************)
C6_AudioBeforeImage ==
    [][(AgentStep /\ PendingAudio(Window(messages)) # {}
                  /\ PendingImage(Window(messages)) # {})
       => Forced'.name # "ocr_image_tool"]_vars

(***************************************************************************)
(* The tabular pipeline.  A dict is a function on its keys; a cell of a    *)
(* row is a string, and float() is defined on the numeric ones.  A result  *)
(* is the fraction num/den, so that a mean is exact.                       *)
(***************************************************************************)
MaxRows == 3             \* rows of a table

Get(d, k, default) == IF k \in DOMAIN d THEN d[k] ELSE default

NumOf == [c \in {"1", "2", "40", "100"} |->
            IF c = "1" THEN 1 ELSE IF c = "2" THEN 2 ELSE IF c = "40" THEN 40 ELSE 100]
IsFloat(c) == c \in DOMAIN NumOf

\* s[i] of Python, defined for -len(s) <= i < len(s)
InRange(s, i) == -Len(s) <= i /\ i < Len(s)
Item(s, i) == IF i >= 0 THEN s[i + 1] ELSE s[Len(s) + i + 1]

\* str.lower() on the operation names in use
lower(name) == IF name = "AVERAGE" THEN "average" ELSE name

\* mutant: > taken as >=
CompareInclusive(op, x, val) ==
    IF op = ">" THEN x >= val
    ELSE IF op = ">=" THEN x >= val
    ELSE IF op = "<" THEN x < val
    ELSE IF op = "<=" THEN x <= val
    ELSE IF op = "==" THEN x = val
    ELSE IF op = "!=" THEN x # val
    ELSE FALSE

\* mutant: an unrecognized operator lets the row pass
CompareUnknownPasses(op, x, val) ==
    IF op = ">" THEN x > val
    ELSE IF op = ">=" THEN x >= val
    ELSE IF op = "<" THEN x < val
    ELSE IF op = "<=" THEN x <= val
    ELSE IF op = "==" THEN x = val
    ELSE IF op = "!=" THEN x # val
    ELSE TRUE

\* the comparison of a filter (process_csv.py 22-41)
Compare(op, x, val) ==
    IF op = ">" THEN x > val
    ELSE IF op = ">=" THEN x >= val
    ELSE IF op = "<" THEN x < val
    ELSE IF op = "<=" THEN x <= val
    ELSE IF op = "==" THEN x = val
    ELSE IF op = "!=" THEN x # val
    ELSE FALSE

\* _apply_filters (process_csv.py 7-43)
RECURSIVE _apply_filters(_, _)
_apply_filters(row_values, filters) ==
    IF filters = <<>> THEN TRUE
    ELSE LET f   == Head(filters)
             col == Get(f, "column", 0)
             op  == Get(f, "op", "==")
             val == Get(f, "value", 0)
         IN  IF ~InRange(row_values, col) THEN FALSE
             ELSE IF ~Compare(op, Item(row_values, col), val) THEN FALSE
             ELSE _apply_filters(row_values, Tail(filters))

Frac(n, d) == [num |-> n, den |-> d]

RECURSIVE SeqSum(_)
SeqSum(v) == IF v = <<>> THEN 0 ELSE Head(v) + SeqSum(Tail(v))
SeqMax(v) == CHOOSE x \in {v[i] : i \in 1..Len(v)} : \A i \in 1..Len(v) : v[i] <= x
SeqMin(v) == CHOOSE x \in {v[i] : i \in 1..Len(v)} : \A i \in 1..Len(v) : x <= v[i]

\* the loop of process_csv.py 76-97: the values of the rows that are kept
RECURSIVE Values(_, _, _)
Values(rows, col_idx, filters) ==
    IF rows = <<>> THEN <<>>
    ELSE LET row  == Head(rows)
             rest == Values(Tail(rows), col_idx, filters)
             vals == [i \in 1..Len(row) |-> NumOf[row[i]]]
         IN  IF row = <<>> THEN rest
             ELSE IF col_idx >= Len(row) THEN rest
             ELSE IF \E i \in 1..Len(row) : ~IsFloat(row[i]) THEN rest
             ELSE IF ~_apply_filters(vals, filters) THEN rest
             ELSE IF ~InRange(vals, col_idx) THEN rest
             ELSE <<Item(vals, col_idx)>> \o rest

\* process_csv (process_csv.py 47-121)
process_csv(rows, operations) ==
    LET op_name == lower(Get(operations, "operation", "sum"))
        col_idx == Get(operations, "column", 0)
        filters == Get(operations, "filters", <<>>)
        values  == Values(rows, col_idx, filters)
        result  ==
            IF values = <<>> THEN Frac(0, 1)
            ELSE IF op_name \in {"sum", "total"} THEN Frac(SeqSum(values), 1)
            ELSE IF op_name = "count" THEN Frac(Len(values), 1)
            ELSE IF op_name = "max" THEN Frac(SeqMax(values), 1)
            ELSE IF op_name = "min" THEN Frac(SeqMin(values), 1)
            ELSE IF op_name \in {"avg", "average", "mean"}
                 THEN Frac(SeqSum(values), Len(values))
            ELSE Frac(SeqSum(values), 1)
    IN  [result |-> result, rows_matched |-> Len(values), operation |-> op_name,
         column |-> col_idx, filters |-> filters]

(***************************************************************************)
(* interpret_instruction (interpret_instruction.py 43-90).  The content    *)
(* the helper model returns is a sequence of tokens: fences, the word      *)
(* json, and a body; json.loads succeeds on a lone body that is a JSON     *)
(* value.                                                                  *)
(***************************************************************************)
\* a token of the content: a fence, the word json, or a body, which is JSON
\* or not, an object or not, and holds the object's data
Token(kind, json, dict, data) == [kind |-> kind, json |-> json, dict |-> dict, data |-> data]
NoData == [operation |-> "", column |-> 0, filters |-> <<>>]
Fence == Token("fence", FALSE, FALSE, NoData)
JsonWord == Token("word", FALSE, FALSE, NoData)
Body(json, dict, data) == Token("body", json, dict, data)

RECURSIVE StripLeft(_)
StripLeft(t) == IF t # <<>> /\ Head(t) = Fence THEN StripLeft(Tail(t)) ELSE t
RECURSIVE StripRight(_)
StripRight(t) ==
    IF t # <<>> /\ t[Len(t)] = Fence THEN StripRight(SubSeq(t, 1, Len(t) - 1)) ELSE t

\* lines 72-77
Unfence(content) ==
    IF content # <<>> /\ Head(content) = Fence
    THEN LET inner == StripRight(StripLeft(content))
         IN  IF inner # <<>> /\ Head(inner) = JsonWord THEN Tail(inner) ELSE inner
    ELSE content

ErrorMarker(content_str) ==
    [error |-> "could_not_parse_json", reason |-> "reason", raw |-> content_str]

\* lines 79-90
interpret_instruction(content) ==
    LET content_str == Unfence(content)
    IN  IF Len(content_str) = 1 /\ Head(content_str).json /\ Head(content_str).dict
        THEN Head(content_str).data
        ELSE ErrorMarker(content_str)

\* inputs of the pipeline
RowPool == {<<"1", "100">>, <<"2", "40">>, <<"x", "bad">>, <<"2">>, <<>>}
RECURSIVE SeqsUpTo(_, _)
SeqsUpTo(S, n) ==
    IF n = 0 THEN {<<>>}
    ELSE LET shorter == SeqsUpTo(S, n - 1)
         IN  shorter \cup {Append(q, x) : q \in shorter, x \in S}

Filter(col, op, val) == [column |-> col, op |-> op, value |-> val]
FilterLists ==
    {<<>>, <<Filter(0, ">", 1)>>, <<Filter(0, ">=", 1), Filter(1, "<", 100)>>,
     <<Filter(5, ">=", 0)>>, <<Filter(0, "~", 1)>>}
Descriptors ==
    {[operation |-> o, column |-> c, filters |-> fl] :
        o \in {"sum", "count", "max", "min", "average", "AVERAGE", "median"},
        c \in {0, 1}, fl \in FilterLists}

\* descriptors at the edges of what int(), str.lower() and list indexing
\* accept: a negative filter column, and the other names process_csv knows
EdgeDescriptors ==
    {[operation |-> o, column |-> c, filters |-> fl] :
        o \in {"sum", "mean", "avg", "total"},
        c \in {0, 1}, fl \in {<<>>, <<Filter(-1, ">", 1)>>}}

SomeDescriptor == [operation |-> "sum", column |-> 1, filters |-> <<Filter(0, ">", 1)>>]
Bodies ==
    {Body(TRUE, TRUE, SomeDescriptor), Body(TRUE, FALSE, NoData),
     Body(FALSE, FALSE, NoData)}
Contents ==
    UNION {{<<b>>, <<Fence, JsonWord, b, Fence>>, <<Fence, b, Fence>>, <<JsonWord, b>>} :
             b \in Bodies}

Pipeline(stage, rows, operations, out) ==
    [stage |-> stage, rows |-> rows, operations |-> operations, out |-> out]
NoOut == [result |-> Frac(0, 1), rows_matched |-> 0, operation |-> "", column |-> 0,
          filters |-> <<>>]

InitCsv ==
    /\ LoopInit({<<SystemMsg, HumanMsg("url")>>}, {NoTimer})
    /\ \E rows \in SeqsUpTo(RowPool, MaxRows) :
          csv = Pipeline("start", rows, NoData, NoOut)

\* the helper model answers and its content is parsed
Interpret ==
    /\ csv.stage = "start"
    /\ \E content \in Contents :
          csv' = [csv EXCEPT !.stage = "interpreted",
                             !.operations = interpret_instruction(content)]
    /\ UNCHANGED loopVars

\* the control model writes the operations argument itself
Direct ==
    /\ csv.stage = "start"
    /\ \E d \in Descriptors \cup EdgeDescriptors :
          csv' = [csv EXCEPT !.stage = "interpreted", !.operations = d]
    /\ UNCHANGED loopVars

\* the tool call process_csv(csv_text, operations)
Execute ==
    /\ csv.stage = "interpreted"
    /\ csv' = [csv EXCEPT !.stage = "done", !.out = process_csv(csv.rows, csv.operations)]
    /\ UNCHANGED loopVars

NextCsv == Interpret \/ Direct \/ Execute

SpecCsv == InitCsv /\ [][NextCsv]_vars

(***************************************************************************)
(* C10.  A descriptor carrying the error marker of a parse failure (an     *)
(* error field and none of operation, column, filters) is never executed:  *)
(* passing it to the executor yields no aggregate computed over the rows.  *)
(***************************************************************************)
IsErrorMarker(d) ==
    "error" \in DOMAIN d /\ DOMAIN d \cap {"operation", "column", "filters"} = {}

C10_ErrorMarkerNotExecuted ==
    (csv.stage = "done" /\ IsErrorMarker(csv.operations))
        => (csv.out.rows_matched = 0 /\ csv.out.result = Frac(0, 1))

(***************************************************************************)
(* C11.  The example of the specification: rows [["1","100"],["2","40"],   *)
(* ["x","bad"]] with {operation: sum, column: 1, filters: [{column: 0,     *)
(* op: ">", value: 1}]}.  Row 1 fails the filter (1 > 1 is false), row 2   *)
(* passes it and contributes 40, row 3 is not numeric: the result is 40    *)
(* over 1 matching row.                                                    *)
(***************************************************************************)
ExampleRows == <<(<<"1", "100">>), (<<"2", "40">>), (<<"x", "bad">>)>>
ExampleCase ==
    csv.stage = "done" /\ csv.rows = ExampleRows /\ csv.operations = SomeDescriptor

C11_ExampleYieldsForty ==
    ExampleCase => (csv.out.result = Frac(40, 1) /\ csv.out.rows_matched = 1)

C11_Witness == ExampleCase /\ csv.out.operation = "sum" /\ csv.out.rows_matched = 1

\* C11 as stated: the example yields result 0 and rowsMatched 0
C11_ExampleYieldsZero ==
    ExampleCase => (csv.out.result = Frac(0, 1) /\ csv.out.rows_matched = 0)

(***************************************************************************)
(* C12.  For every operation name (average included) and every input in    *)
(* which no row passes the usability and filter checks, the executor       *)
(* returns result 0 and rows_matched 0, and divides by nothing.            *)
(***************************************************************************)
\* usability and filtering in the words of the specification
Usable(row, col) ==
    /\ row # <<>>
    /\ Len(row) >= col + 1
    /\ \A i \in 1..Len(row) : row[i] \in DOMAIN NumOf
PassesFilter(row, f) ==
    /\ f.column >= 0 /\ f.column < Len(row)
    /\ f.op \in {">", ">=", "<", "<=", "==", "!="}
    /\ LET x == NumOf[row[f.column + 1]] IN
       \/ f.op = ">" /\ x > f.value
       \/ f.op = ">=" /\ x >= f.value
       \/ f.op = "<" /\ x < f.value
       \/ f.op = "<=" /\ x <= f.value
       \/ f.op = "==" /\ x = f.value
       \/ f.op = "!=" /\ x # f.value
RowPasses(row, d) ==
    /\ Usable(row, d.column)
    /\ \A i \in 1..Len(d.filters) : PassesFilter(row, d.filters[i])
NoRowPasses ==
    /\ csv.operations \in Descriptors
    /\ \A i \in 1..Len(csv.rows) : ~RowPasses(csv.rows[i], csv.operations)

HasHuman(h) == \E i \in 1..Len(h) : h[i].type = "human"
\* the history a normal turn works on
UsedHistory(msgs) == Grounded(TrimMessages(msgs))

C13_TrimmedKeepsSystemAndHuman ==
    [][(AgentStep /\ path' # "timeout")
       => /\ Head(UsedHistory(messages)).type = "system"
          /\ HasHuman(UsedHistory(messages))]_vars

\* the model was just invoked on a history from which trimming had removed
\* every human turn
C13_Witness ==
    /\ path = "llm" /\ Last(messages).type = "ai"
    /\ LET before == SubSeq(messages, 1, Len(messages) - 1) IN
       /\ ~HasHuman(TrimMessages(before))
       /\ Len(TrimMessages(before)) < Len(before)
       /\ HasHuman(UsedHistory(before))

(***************************************************************************)
(* C14.  The tool invocations of one assistant turn execute one at a time  *)
(* in the order requested, with no overlap: a call starts only when every  *)
(* call requested before it is done, so two submissions of one turn never  *)
(* interleave their reads and writes of the shared state.                  *)
(***************************************************************************)
C14_OneAtATimeInOrder ==
    \A i, j \in 1..Len(threads) :
        (i < j /\ threads[j].stage # "ready") => threads[i].stage = "done"

(***************************************************************************)
(* C15.  For a submission whose response is marked incorrect and carries a *)
(* follow-up identifier, the outcome is advance exactly when the attempt   *)
(* counter of the current identifier (after this attempt's increment) is   *)
(* at least 4, or delay (now minus the current identifier's start time)    *)
(* is at least 180, or the value recorded for the follow-up is not the     *)
(* sentinel and now minus that value exceeds 90; otherwise it is retry.    *)
(***************************************************************************)
\* the start time recorded for an identifier, once it has been announced
Recorded(id) == IF id \in DOMAIN url_time THEN url_time[id] ELSE now
Delay(id) == IF id \in DOMAIN url_time THEN now - url_time[id] ELSE 0
GiveUp(id, followUp) ==
    \/ cache[id] + 1 >= 4
    \/ Delay(id) >= 180
    \/ Recorded(followUp) # OffsetUnset /\ now - Recorded(followUp) > 90

C15_AdvanceIff ==
    [][(PostStep /\ IncorrectWithFollowUp(last'))
       => /\ last'.outcome \in {"advance", "retry"}
          /\ (last'.outcome = "advance") <=> GiveUp(url, last'.next)]_vars

\* a submission below the ceiling and inside the task limit advanced because
\* its follow-up had been announced more than 90 seconds before
C15_Witness ==
    /\ last.tool = "post_request" /\ last.outcome = "advance"
    /\ cache[last.cur] < 4
    /\ Delay(last.cur) < 180
    /\ last.next # last.cur
    /\ now - url_time[last.next] > 90

(***************************************************************************)
(* C16.  After a submission that returns Continue: on a retry outcome the  *)
(* current task-identifier is unchanged (it is the forwarding target) and  *)
(* the retry offset is the follow-up's recorded start time; on a correct   *)
(* answer or an advance outcome the current task-identifier is the         *)
(* announced follow-up and the retry offset is the sentinel.  The retry    *)
(* offset is cleared exactly when the forwarding target equals the         *)
(* announced follow-up.                                                    *)
(***************************************************************************)
Continue(d) == d.outcome \in {"retry", "advance", "correct"}

C16_ContinueEffects ==
    [][(PostStep /\ Continue(last'))
       => /\ last'.outcome = "retry" =>
                (url' = url /\ offset' = url_time'[last'.next])
          /\ last'.outcome \in {"advance", "correct"} =>
                (url' = last'.next /\ offset' = OffsetUnset)
          /\ (offset' = OffsetUnset) <=> (url' = last'.next)]_vars

(***************************************************************************)
(* C17.  A submission that passes validation but does not return Continue  *)
(* (an HTTP failure, a network failure, a non-JSON response, or a response *)
(* with no follow-up identifier) increments the attempt counter of the     *)
(* current identifier by exactly one and leaves the current                *)
(* task-identifier, the retry offset and every timer entry unchanged; the  *)
(* HTTP failure is reported as such.                                       *)
(***************************************************************************)
NotContinue(d) ==
    d.sent /\ d.outcome \in {"http_error", "exception", "non_json", "agent_signal_END"}

Malformed(m) == m.fin = "MALFORMED_FUNCTION_CALL"
\* the edges out of handle_malformed and tools, and into the end
Edges ==
    /\ pc = "handle_malformed" => pc' = "agent"
    /\ pc = "tools" => pc' \in {"tools", "agent"}
    /\ (pc # "end" /\ pc' = "end") =>
          (pc = "agent" /\ ~Malformed(Last(messages')) /\ Last(messages').calls = <<>>)
\* the edge selector, for a reading isEnd of the END test
Precedence(isEnd(_)) ==
    AgentStep =>
        LET m == Last(messages') IN
        pc' = IF Malformed(m) THEN "handle_malformed"
              ELSE IF m.calls # <<>> THEN "tools"
              ELSE IF isEnd(m.text) THEN "end"
              ELSE "agent"
StrippedEnd(text) == strip(text) = "END"
ExactEnd(text) == text = "END"

C19_TimedOutSkipsGate ==
    [][(AgentStep /\ isTimedOut(url))
       => /\ path' = "timeout"
          /\ Last(messages').calls = <<>> \/ Last(messages').calls[1].id = "call"]_vars

MaxOf(S) == CHOOSE x \in S : \A y \in S : y <= x
\* the position of the latest download marker for f in the window
LastMarker(w, f) == MaxOf({i \in 1..Len(w) : MarkerAt(w, i, f)})
\* the most recently downloaded artifact among the pending ones P
LatestPending(w, P) == CHOOSE f \in P : \A g \in P : LastMarker(w, g) <= LastMarker(w, f)
\* f was processed in the window and a pending artifact of its class was
\* downloaded after that
DownloadedAfterProcessed(w, P) ==
    \E f \in AudioFiles \ P : \E g \in P : \E i, j \in 1..Len(w) :
        i < j /\ ResultAt(w, i, f) /\ MarkerAt(w, j, g)

C21_LatestPendingForced ==
    [][AgentStep =>
         LET w == Window(messages)
             P == PendingAudio(w)
         IN  (Cardinality(P) >= 2 \/ DownloadedAfterProcessed(w, P))
                => /\ Forced'.name = "transcribe_audio"
                   /\ Forced'.file = LatestPending(w, P)]_vars

(***************************************************************************)
(* C22.  For every table and every descriptor, execute aggregates exactly  *)
(* the rows that are non-empty, at least column+1 long, fully numeric and  *)
(* satisfy every filter, a filter with an unrecognized operator or an      *)
(* out-of-range column excluding the row; the result is the reference sum, *)
(* count, max, min or mean of the selected column over those rows, an      *)
(* unrecognized operation name yields the sum, and rows_matched is the     *)
(* number of rows aggregated.                                              *)
(***************************************************************************)
\* the selected column of the rows that pass, in the words of the
\* specification
RECURSIVE Selected(_, _)
Selected(rows, d) ==
    IF rows = <<>> THEN <<>>
    ELSE LET rest == Selected(Tail(rows), d)
         IN  IF RowPasses(Head(rows), d)
             THEN <<NumOf[Head(rows)[d.column + 1]]>> \o rest
             ELSE rest

RECURSIVE Total(_, _)
Total(v, n) == IF n = 0 THEN 0 ELSE Total(v, n - 1) + v[n]
Largest(v) == CHOOSE x \in {v[i] : i \in 1..Len(v)} : \A i \in 1..Len(v) : x >= v[i]
Smallest(v) == CHOOSE x \in {v[i] : i \in 1..Len(v)} : \A i \in 1..Len(v) : x <= v[i]

\* the reference aggregate for an operation name
Reference(name, v) ==
    IF v = <<>> THEN Frac(0, 1)
    ELSE IF name = "sum" THEN Frac(Total(v, Len(v)), 1)
    ELSE IF name = "count" THEN Frac(Len(v), 1)
    ELSE IF name = "max" THEN Frac(Largest(v), 1)
    ELSE IF name = "min" THEN Frac(Smallest(v), 1)
    ELSE IF name = "average" THEN Frac(Total(v, Len(v)), Len(v))
    ELSE Frac(Total(v, Len(v)), 1)

Executed(D) == csv.stage = "done" /\ csv.operations \in D

C22_ExecuteMatchesReference ==
    Executed(Descriptors \cup EdgeDescriptors) =>
        LET v == Selected(csv.rows, csv.operations) IN
        /\ csv.out.rows_matched = Len(v)
        /\ csv.out.result = Reference(csv.operations.operation, v)

(***************************************************************************)
(* C23.  Every task-identifier that becomes current through a submission   *)
(* (advance or correct outcome) has a SessionTimer entry at the moment it  *)
(* becomes current; only the initial task-identifier of the session can be *)
(* current without an entry.                                               *)
(***************************************************************************)
\* one of the submissions of a turn run side by side got its response
FinishStep ==
    /\ pc = "tools" /\ ParallelBatch /\ threads # <<>>
    /\ \E i \in 1..Len(threads) : threads[i].stage = "sent" /\ threads'[i].stage = "done"

C23_CurrentHasEntry ==
    [][/\ ((PostStep \/ FinishStep) /\ last'.outcome \in {"advance", "correct"})
            => (url' = last'.next /\ last'.next \in DOMAIN url_time')
       /\ url' = InitialURL \/ url' \in DOMAIN url_time']_vars

\* the first task, which has no entry, was answered and the follow-up that
\* became current has one
C23_Witness ==
    /\ last.tool = "post_request" /\ last.outcome \in {"advance", "correct"}
    /\ last.cur = InitialURL /\ InitialURL \notin DOMAIN url_time
    /\ url = last.next /\ url # InitialURL
    /\ url \in DOMAIN url_time

(***************************************************************************)
(* C24.  While the current task-identifier has no SessionTimer entry, the  *)
(* loop never takes the timeout-escape path, even if the retry offset is   *)
(* set and more than 90 seconds old, and the delay of a submission is 0:   *)
(* a submission for that identifier advances only on a correct answer, at  *)
(* the attempt ceiling, or for a follow-up announced more than 90 seconds  *)
(* before, never because of the 180 seconds of the task limit.             *)
(***************************************************************************)
NoEntry(id) == id \notin DOMAIN url_time

C24_NoEntryNoTimeout ==
    [][/\ (AgentStep /\ NoEntry(url)) => path' # "timeout"
       /\ (PostStep /\ NoEntry(url) /\ IncorrectWithFollowUp(last')
                    /\ last'.outcome = "advance")
            => \/ cache'[url] >= 4
               \/ now - url_time'[last'.next] > 90]_vars

\* the session ended on a normal turn taken for a task without an entry
\* while the retry offset was more than 90 seconds old
C24_Witness ==
    /\ pc = "end" /\ path = "llm"
    /\ NoEntry(url)
    /\ offset # OffsetUnset /\ now - offset > 90
    /\ last.tool = "post_request" /\ last.cur = url

(***************************************************************************)
(* C25.  Forced calls cannot loop: once a forced transcribe or forced      *)
(* analyze-image turn was emitted for a download marker and its result     *)
(* appended, no later DECIDE turn forces that tool again for that marker;  *)
(* each download marker causes at most one forced call.                    *)
(***************************************************************************)
\* the download markers of the media class that tool processes
ClassMarkers(msgs, tool) ==
    {i \in 1..Len(msgs) :
        /\ msgs[i].text = "Downloaded file to:"
        /\ ProcessingTool(msgs[i].file) = tool}
\* a forced call of tool was emitted after position k
ForcedSince(msgs, k, tool) ==
    \E j \in (k + 1)..Len(msgs) : \E c \in 1..Len(msgs[j].calls) :
        /\ msgs[j].calls[c].name = tool
        /\ msgs[j].calls[c].id \in {"force_audio", "force_ocr"}

C25_ForcedOncePerMarker ==
    [][(AgentStep /\ Forced'.name # NoCall.name)
       => /\ ClassMarkers(messages, Forced'.name) # {}
          /\ ~ForcedSince(messages, MaxOf(ClassMarkers(messages, Forced'.name)),
                          Forced'.name)]_vars

\* the turn after a forced transcription and its result invoked the model,
\* with the download marker still among the last 15 turns
C25_Witness ==
    /\ path = "llm" /\ Len(messages) >= 5
    /\ LET n == Len(messages) IN
       /\ messages[n].type = "ai"
       /\ messages[n - 1].type = "tool" /\ messages[n - 1].name = "transcribe_audio"
       /\ messages[n - 2].calls # <<>> /\ messages[n - 2].calls[1].id = "force_audio"
       /\ messages[n - 3].text = "Downloaded file to:"
       /\ messages[n - 3].file = messages[n - 2].calls[1].file

====
